---- MODULE Spec2Model ----
(***************************************************************************)
(* A model of the two subsystems of OmniParser's tool layer:               *)
(*   - mcp_server.py: the seven MCP tool handlers and safe_computer_action *)
(*     running as coroutines on one asyncio event loop;                    *)
(*   - googleaiclient.py: run_gemini_interleaved, the message-history      *)
(*     adapter and the single Gemini generation request.                   *)
(*                                                                         *)
(* Python values are records [ty, n, s] so that values of different        *)
(* dynamic types stay comparable.  A Python str is a sequence of string    *)
(* tokens (characters where case matters, path components for paths), so   *)
(* that lower(), basename() and f-string concatenation are computed.       *)
(***************************************************************************)
EXTENDS Integers, Sequences, FiniteSets, TLC

VARIABLES
    \* ---- mcp_server.py: one entry per coroutine started by the registry
    pc,            \* task -> "idle" | "awaiting" | "sleeping" | "blocked" | "returned" | "raised"
    request,       \* task -> the tool call the registry delivers: [handler, params]
    invoked,       \* task -> sequence of computer_tool_instance(...) calls made by this call
    outcomes,      \* task -> sequence of backend outcomes delivered to this call
    sleeps,        \* task -> sequence of asyncio.sleep durations started by this call
    result,        \* task -> the envelope returned (NoEnvelope until then)
    raised,        \* task -> the exception type that escaped the handler ("" if none)
    \* ---- googleaiclient.py: one call of run_gemini_interleaved
    gpc,           \* "start" | "loop" | "items" | "append" | "returned" | "raised"
    messages,      \* the messages argument
    i,             \* index of the message the outer for loop is at
    j,             \* index of the item the inner for loop is at
    role,          \* the local variable role
    gemini_parts,  \* the local list gemini_parts
    gemini_history,\* the local list gemini_history
    sent,          \* sequence of contents= arguments passed to model.generate_content
    response,      \* the response object returned by generate_content
    response_text, \* the local variable response_text
    token_info,    \* the local dict token_info
    caught         \* the exception an except clause of the outer try bound to e

dispatchVars == <<pc, request, invoked, outcomes, sleeps, result, raised>>
geminiVars == <<gpc, messages, i, j, role, gemini_parts, gemini_history, sent,
                response, response_text, token_info, caught>>
vars == <<pc, request, invoked, outcomes, sleeps, result, raised,
          gpc, messages, i, j, role, gemini_parts, gemini_history, sent,
          response, response_text, token_info, caught>>

(***************************************************************************)
(* Bounds                                                                  *)
(***************************************************************************)
\* number of coroutines the registry runs concurrently
MaxTasks == 2
\* most messages in one conversation
MaxMsgs == 2
\* most messages plus content-list items in one conversation
MaxSize == 3

Tasks == 1..MaxTasks

(***************************************************************************)
(* Python values                                                           *)
(***************************************************************************)
PyNone == [ty |-> "None", n |-> 0, s |-> <<>>]
PyInt(k) == [ty |-> "int", n |-> k, s |-> <<>>]
PyStr(str) == [ty |-> "str", n |-> 0, s |-> str]

\* str.lower() on one character
LowerChar(c) ==
    CASE c = "L" -> "l"
      [] c = "E" -> "e"
      [] c = "F" -> "f"
      [] c = "T" -> "t"
      [] c = "R" -> "r"
      [] c = "I" -> "i"
      [] c = "G" -> "g"
      [] c = "H" -> "h"
      [] c = "D" -> "d"
      [] c = "O" -> "o"
      [] c = "U" -> "u"
      [] c = "B" -> "b"
      [] c = "C" -> "c"
      [] c = "K" -> "k"
      [] c = "M" -> "m"
      [] OTHER -> c

\* str.lower()
Lower(str) == [k \in DOMAIN str |-> LowerChar(str[k])]

\* dict.get(key, default)
Get(params, key, default) == IF key \in DOMAIN params THEN params[key] ELSE default

\* `not v`: Python truthiness of a value
Falsy(v) ==
    \/ v.ty = "None"
    \/ v.ty = "str" /\ v.s = <<>>
    \/ v.ty = "int" /\ v.n = 0

(***************************************************************************)
(* The ComputerTool backend (an opaque capability): what one awaited call  *)
(* can produce.  kind "result" is a returned ToolResult (hasImage tells    *)
(* whether it carries a base64_image attribute), kind "ToolError" is the   *)
(* backend's declared failure, kind "Exception" any other raised failure.  *)
(***************************************************************************)
BackendOutcomes ==
    { [kind |-> "result", output |-> PyStr(<<"ok">>), hasImage |-> TRUE,
       image |-> PyStr(<<"iVBOR">>), msg |-> <<>>],
      [kind |-> "result", output |-> PyStr(<<"X=1,Y=2">>), hasImage |-> FALSE,
       image |-> PyNone, msg |-> <<>>],
      [kind |-> "ToolError", output |-> PyNone, hasImage |-> FALSE,
       image |-> PyNone, msg |-> <<"(x, y) must be a tuple of length 2">>],
      [kind |-> "Exception", output |-> PyNone, hasImage |-> FALSE,
       image |-> PyNone, msg |-> <<"connection reset">>] }

(***************************************************************************)
(* mcp_server.py                                                           *)
(***************************************************************************)
NoEnvelope == [status |-> PyNone]
NoCall == [handler |-> "", params |-> <<>>]

ErrorEnvelope(message) == [status |-> PyStr(<<"error">>), message |-> PyStr(message)]

\* safe_computer_action with `except Exception` placed before `except ToolError`
SafeEnvelope_GenericFirst(o) ==
    CASE o.kind = "result" ->
            [status |-> PyStr(<<"success">>),
             output |-> o.output,
             base64_image |-> IF o.hasImage THEN o.image ELSE PyNone]
      [] OTHER -> ErrorEnvelope(<<"Unexpected error in ComputerTool: ">> \o o.msg)

\* the three return statements of safe_computer_action, by backend outcome
SafeEnvelope(o) ==
    CASE o.kind = "result" ->
            [status |-> PyStr(<<"success">>),
             output |-> o.output,
             base64_image |-> IF o.hasImage THEN o.image ELSE PyNone]
      [] o.kind = "ToolError" -> ErrorEnvelope(o.msg)
      [] OTHER -> ErrorEnvelope(<<"Unexpected error in ComputerTool: ">> \o o.msg)

\* time.sleep(duration) in place of `await asyncio.sleep(duration)`: the
\* coroutine keeps the event loop's thread for the whole delay
BlockingSleepState == "blocked"

\* what `await asyncio.sleep(duration)` does to the calling coroutine: it is
\* suspended and the event loop keeps running the others
SleepState == "sleeping"

\* the asyncio event loop runs a coroutine's step only while no coroutine
\* holds the loop's thread in a blocking call
Runnable(t) == \A u \in Tasks \ {t} : pc[u] # "blocked"

\* a handler returns an envelope to the registry
Return(t, envelope) ==
    /\ pc' = [pc EXCEPT ![t] = "returned"]
    /\ result' = [result EXCEPT ![t] = envelope]
    /\ UNCHANGED <<request, invoked, outcomes, sleeps, raised>>
    /\ UNCHANGED geminiVars

\* an exception leaves the handler and reaches the registry
Raise(t, exception) ==
    /\ pc' = [pc EXCEPT ![t] = "raised"]
    /\ raised' = [raised EXCEPT ![t] = exception]
    /\ UNCHANGED <<request, invoked, outcomes, sleeps, result>>
    /\ UNCHANGED geminiVars

\* safe_computer_action up to its await: the one call of computer_tool_instance
safe_computer_action(t, action_str, text, coordinate) ==
    /\ pc' = [pc EXCEPT ![t] = "awaiting"]
    /\ invoked' = [invoked EXCEPT ![t] =
            Append(@, [action |-> action_str, text |-> text, coordinate |-> coordinate])]
    /\ UNCHANGED <<request, outcomes, sleeps, result, raised>>
    /\ UNCHANGED geminiVars

\* safe_computer_action after its await: the backend's outcome becomes the envelope
computer_tool_completes(t) ==
    /\ pc[t] = "awaiting"
    /\ Runnable(t)
    /\ \E o \in BackendOutcomes :
          /\ outcomes' = [outcomes EXCEPT ![t] = Append(@, o)]
          /\ result' = [result EXCEPT ![t] = SafeEnvelope(o)]
    /\ pc' = [pc EXCEPT ![t] = "returned"]
    /\ UNCHANGED <<request, invoked, sleeps, raised>>
    /\ UNCHANGED geminiVars

Entered(t, name) ==
    /\ pc[t] = "idle"
    /\ Runnable(t)
    /\ request[t].handler = name

\* `x is None and y is None` in place of `x is None or y is None`
MissingCoordinate_Both(x, y) == x = PyNone /\ y = PyNone

\* `if x is None or y is None` of handle_mouse_move and handle_mouse_drag
MissingCoordinate(x, y) == x = PyNone \/ y = PyNone

handle_mouse_move(t) ==
    /\ Entered(t, "handle_mouse_move")
    /\ LET x == Get(request[t].params, "x", PyNone)
           y == Get(request[t].params, "y", PyNone)
       IN  IF MissingCoordinate(x, y)
           THEN Return(t, ErrorEnvelope(<<"Missing x or y coordinate.">>))
           ELSE safe_computer_action(t, <<"mouse_move">>, PyNone, <<x, y>>)

\* action_map.get((button, click_type)) of handle_mouse_click
action_map(button, click_type) ==
    CASE button = <<"l","e","f","t">> /\ click_type = <<"c","l","i","c","k">>
            -> PyStr(<<"left_click">>)
      [] button = <<"r","i","g","h","t">> /\ click_type = <<"c","l","i","c","k">>
            -> PyStr(<<"right_click">>)
      [] button = <<"m","i","d","d","l","e">> /\ click_type = <<"c","l","i","c","k">>
            -> PyStr(<<"middle_click">>)
      [] button = <<"l","e","f","t">> /\ click_type = <<"d","o","u","b","l","e">>
            -> PyStr(<<"double_click">>)
      [] OTHER -> PyNone

handle_mouse_click(t) ==
    /\ Entered(t, "handle_mouse_click")
    /\ LET button == Get(request[t].params, "button", PyStr(<<"l","e","f","t">>))
           click_type == Get(request[t].params, "click_type", PyStr(<<"c","l","i","c","k">>))
       IN  IF button.ty # "str" \/ click_type.ty # "str"
           THEN \* .lower() on a value that is not a str
                Raise(t, "AttributeError")
           ELSE LET computer_action_str == action_map(Lower(button.s), Lower(click_type.s))
                IN  IF Falsy(computer_action_str)
                    THEN Return(t, ErrorEnvelope(<<"Unsupported button/click_type: ">>
                                    \o button.s \o <<"/">> \o click_type.s))
                    ELSE safe_computer_action(t, computer_action_str.s, PyNone, <<>>)

handle_mouse_drag(t) ==
    /\ Entered(t, "handle_mouse_drag")
    /\ LET x == Get(request[t].params, "x", PyNone)
           y == Get(request[t].params, "y", PyNone)
       IN  IF MissingCoordinate(x, y)
           THEN Return(t, ErrorEnvelope(<<"Missing x or y coordinate for drag.">>))
           ELSE safe_computer_action(t, <<"left_click_drag">>, PyNone, <<x, y>>)

handle_keyboard_type(t) ==
    /\ Entered(t, "handle_keyboard_type")
    /\ LET text_to_type == Get(request[t].params, "text_to_type", PyNone)
       IN  IF text_to_type = PyNone
           THEN Return(t, ErrorEnvelope(<<"Missing text_to_type.">>))
           ELSE safe_computer_action(t, <<"type">>, text_to_type, <<>>)

handle_keyboard_press_key(t) ==
    /\ Entered(t, "handle_keyboard_press_key")
    /\ LET key_to_press == Get(request[t].params, "key_to_press", PyNone)
       IN  IF key_to_press = PyNone
           THEN Return(t, ErrorEnvelope(<<"Missing key_to_press.">>))
           ELSE safe_computer_action(t, <<"key">>, key_to_press, <<>>)

handle_get_cursor_position(t) ==
    /\ Entered(t, "handle_get_cursor_position")
    /\ safe_computer_action(t, <<"cursor_position">>, PyNone, <<>>)

\* the return value of handle_wait_seconds' timed branch
WaitedEnvelope(duration) ==
    [status |-> PyStr(<<"success">>),
     output |-> PyStr(<<"Waited for ", ToString(duration.n), " seconds.">>)]

\* `duration >= 0` in place of `duration > 0`
TimedWait_OrZero(duration) == duration.n >= 0

\* `if duration > 0` of handle_wait_seconds
TimedWait(duration) == duration.n > 0

\* handle_wait_seconds up to its first await
handle_wait_seconds(t) ==
    /\ Entered(t, "handle_wait_seconds")
    /\ LET duration == Get(request[t].params, "duration", PyInt(0))
       IN  IF duration.ty # "int"
           THEN \* `duration > 0` between a non-number and int
                Raise(t, "TypeError")
           ELSE IF TimedWait(duration)
                THEN /\ pc' = [pc EXCEPT ![t] = SleepState]
                     /\ sleeps' = [sleeps EXCEPT ![t] = Append(@, duration)]
                     /\ UNCHANGED <<request, invoked, outcomes, result, raised>>
                     /\ UNCHANGED geminiVars
                ELSE safe_computer_action(t, <<"wait">>, PyNone, <<>>)

\* handle_wait_seconds after asyncio.sleep: the timer fires and the handler returns
sleep_elapses(t) ==
    /\ pc[t] \in {"sleeping", "blocked"}
    /\ Runnable(t)
    /\ Return(t, WaitedEnvelope(sleeps[t][Len(sleeps[t])]))

(***************************************************************************)
(* googleaiclient.py                                                       *)
(***************************************************************************)
NoException == [type |-> "", msg |-> <<>>]
NoResponse == [text |-> <<>>, blocked |-> FALSE, usage_metadata |-> FALSE,
               prompt_token_count |-> PyNone, candidates_token_count |-> PyNone]
ZeroTokens == [input_tokens |-> 0, output_tokens |-> 0, total_tokens |-> 0]

\* the classes an exception is an instance of (Python's and PIL's hierarchy)
Classes(type) ==
    CASE type = "ModuleNotFoundError" -> {"ModuleNotFoundError", "ImportError", "Exception"}
      [] type = "FileNotFoundError" -> {"FileNotFoundError", "OSError", "Exception"}
      [] type = "PermissionError" -> {"PermissionError", "OSError", "Exception"}
      [] type = "UnidentifiedImageError" -> {"UnidentifiedImageError", "OSError", "Exception"}
      [] type = "" -> {}
      [] OTHER -> {type, "Exception"}

\* the first of a try statement's except clauses that matches e ("" if none)
RECURSIVE FirstMatch(_, _)
FirstMatch(clauses, e) ==
    IF clauses = <<>> THEN ""
    ELSE IF Head(clauses) \in Classes(e.type) THEN Head(clauses)
    ELSE FirstMatch(Tail(clauses), e)

\* ---- content items -------------------------------------------------------
\* an item of a content list: a dict (kind = its "type", hasText = it has a
\* "text" key), a str (s = its value) or a value of another type
TextItem == [ty |-> "dict", kind |-> <<"text">>, hasText |-> TRUE,
             text |-> <<"hello">>, s |-> <<>>]
TextItemNoText == [ty |-> "dict", kind |-> <<"text">>, hasText |-> FALSE,
                   text |-> <<>>, s |-> <<>>]
OtherItem == [ty |-> "int", kind |-> <<>>, hasText |-> FALSE, text |-> <<>>, s |-> <<>>]
StrItem(str) == [ty |-> "str", kind |-> <<>>, hasText |-> FALSE, text |-> <<>>, s |-> str]

\* image references, as path strings (components, separators, extension)
ScreenPng == <<"shots", "/", "screen", ".png">>
GonePng == <<"shots", "/", "old", "/", "gone", ".png">>
RacePng == <<"race", ".png">>
NotesJpg == <<"notes", ".jpg">>
SecretPng == <<"root", "/", "secret", ".png">>

\* the file system and PIL, as the adapter finds them: what os.path.exists
\* answers for a path and what Image.open does with it
Exists(path) == path # GonePng
OpenRaises(path) ==
    CASE path = RacePng ->
            [type |-> "FileNotFoundError", msg |-> <<"[Errno 2] No such file or directory">>]
      [] path = NotesJpg ->
            [type |-> "UnidentifiedImageError", msg |-> <<"cannot identify image file">>]
      [] path = SecretPng ->
            [type |-> "PermissionError", msg |-> <<"[Errno 13] Permission denied">>]
      [] OTHER -> NoException

\* utils.is_image_path: a path-shape heuristic on the string's extension
ImageExtensions == {".jpg", ".jpeg", ".png", ".bmp", ".gif", ".tiff", ".tif"}
is_image_path(str) == str # <<>> /\ str[Len(str)] \in ImageExtensions

\* the whole path in place of os.path.basename(path)
basename_FullPath(path) == path

\* os.path.basename: what follows the last separator
RECURSIVE basename(_)
basename(path) ==
    IF path = <<>> THEN <<>>
    ELSE IF path[Len(path)] = "/" THEN <<>>
    ELSE Append(basename(SubSeq(path, 1, Len(path) - 1)), path[Len(path)])

\* ---- parts ---------------------------------------------------------------
TextPart(str) == [kind |-> "text", s |-> str]
ImagePart(path) == [kind |-> "image", s |-> path]

\* the except clauses of the image-loading try statement, in source order
ImageClauses == <<"FileNotFoundError", "UnidentifiedImageError", "Exception">>

\* the last clause's placeholder built from the exception's text as well
LoadedPart_WithReason(item) ==
    IF ~Exists(item)
    THEN TextPart(<<"[Image not found: ">> \o basename(item) \o <<"]">>)
    ELSE LET e == OpenRaises(item)
             clause == FirstMatch(ImageClauses, e)
         IN  CASE e = NoException -> ImagePart(item)
               [] clause = "FileNotFoundError" ->
                    TextPart(<<"[Image not found: ">> \o basename(item) \o <<"]">>)
               [] clause = "UnidentifiedImageError" ->
                    TextPart(<<"[Unidentifiable image: ">> \o basename(item) \o <<"]">>)
               [] OTHER ->
                    TextPart(<<"[Error loading image: ">> \o basename(item)
                             \o <<": ">> \o e.msg \o <<"]">>)

\* the part the try statement around Image.open appends for an image reference
LoadedPart(item) ==
    IF ~Exists(item)
    THEN TextPart(<<"[Image not found: ">> \o basename(item) \o <<"]">>)
    ELSE LET e == OpenRaises(item)
             clause == FirstMatch(ImageClauses, e)
         IN  CASE e = NoException -> ImagePart(item)
               [] clause = "FileNotFoundError" ->
                    TextPart(<<"[Image not found: ">> \o basename(item) \o <<"]">>)
               [] clause = "UnidentifiedImageError" ->
                    TextPart(<<"[Unidentifiable image: ">> \o basename(item) \o <<"]">>)
               [] OTHER ->
                    TextPart(<<"[Error loading image: ">> \o basename(item) \o <<"]">>)

\* ---- the outer try statement ---------------------------------------------
\* the try statement without its last clause, `except Exception`
OuterClauses_NoGeneric == <<"ImportError", "AttributeError", "TypeError">>

\* the except clauses of run_gemini_interleaved's try statement, in source order
OuterClauses == <<"ImportError", "AttributeError", "TypeError", "Exception">>

\* the response_text each except clause builds
ErrorText(clause, e) ==
    CASE clause = "ImportError" ->
            <<"ImportError: Please install google-generativeai. ">> \o e.msg
      [] clause = "AttributeError" ->
            <<"Error setting up Gemini call (AttributeError): ">> \o e.msg \o <<".">>
      [] clause = "TypeError" ->
            <<"Type error during Gemini call (check arguments/version): ">> \o e.msg \o <<".">>
      [] OTHER ->
            <<"Error interacting with Gemini API: ", e.type, " - ">> \o e.msg

\* an exception raised inside the try statement: the matching clause sets
\* response_text and the function falls through to its return statement
Recover(e) ==
    LET clause == FirstMatch(OuterClauses, e)
    IN  /\ caught' = e
        /\ IF clause = ""
           THEN gpc' = "raised" /\ UNCHANGED response_text
           ELSE gpc' = "returned" /\ response_text' = ErrorText(clause, e)
        /\ UNCHANGED <<messages, i, j, role, gemini_parts, gemini_history, sent,
                       response, token_info>>
        /\ UNCHANGED dispatchVars

\* what the client library, the network or the service can raise
Failures ==
    { [type |-> "ModuleNotFoundError", msg |-> <<"No module named 'google.api_core'">>],
      [type |-> "AttributeError", msg |-> <<"module 'google.generativeai' has no attribute 'configure'">>],
      [type |-> "TypeError", msg |-> <<"__init__() got an unexpected keyword argument 'system_instruction'">>],
      [type |-> "ResourceExhausted", msg |-> <<"429 quota exceeded">>] }

\* genai.configure and genai.GenerativeModel succeed; gemini_history starts empty
setup ==
    /\ gpc = "start"
    /\ gpc' = "loop"
    /\ gemini_history' = <<>>
    /\ i' = 1
    /\ UNCHANGED <<messages, j, role, gemini_parts, sent, response, response_text,
                   token_info, caught>>
    /\ UNCHANGED dispatchVars

\* genai.configure, genai.GenerativeModel or copy.deepcopy raises
setup_fails ==
    /\ gpc = "start"
    /\ \E e \in Failures : Recover(e)

\* the remapping left out
RemapRole_Missing(r) == r

\* `if role == "assistant": role = "model"`
RemapRole(r) == IF r = PyStr(<<"assistant">>) THEN PyStr(<<"model">>) ELSE r

\* the two `continue` statements: a "tool" message, or a role that is neither
\* "user" nor "model" after the remapping
SkipsMessage(r) ==
    \/ r = PyStr(<<"tool">>)
    \/ RemapRole(r) \notin {PyStr(<<"user">>), PyStr(<<"model">>)}

\* the head of the outer for loop: role remapping and the content's type
next_message ==
    /\ gpc = "loop"
    /\ i <= Len(messages)
    /\ LET msg == messages[i]
       IN  /\ role' = RemapRole(msg.role)
           /\ IF SkipsMessage(msg.role)
              THEN /\ i' = i + 1
                   /\ UNCHANGED <<gpc, j, gemini_parts>>
              ELSE /\ UNCHANGED i
                   /\ j' = 1
                   /\ CASE msg.content.ty = "list" /\ msg.content.items # <<>> ->
                             gpc' = "items" /\ gemini_parts' = <<>>
                        [] msg.content.ty = "str" ->
                             gpc' = "append" /\ gemini_parts' = <<TextPart(msg.content.s)>>
                        [] OTHER ->
                             gpc' = "append" /\ gemini_parts' = <<>>
    /\ UNCHANGED <<messages, gemini_history, sent, response, response_text,
                   token_info, caught>>
    /\ UNCHANGED dispatchVars

\* the inner for loop moves to the next item, or ends
Advance ==
    /\ j' = j + 1
    /\ gpc' = IF j = Len(messages[i].content.items) THEN "append" ELSE "items"
    /\ UNCHANGED <<messages, i, role, gemini_history, sent, response, response_text,
                   token_info, caught>>
    /\ UNCHANGED dispatchVars

Item == messages[i].content.items[j]

\* a dict item of type "text": item["text"] is appended (KeyError without the key)
append_text ==
    /\ gpc = "items"
    /\ Item.ty = "dict" /\ Item.kind = <<"text">>
    /\ IF Item.hasText
       THEN gemini_parts' = Append(gemini_parts, TextPart(Item.text)) /\ Advance
       ELSE Recover([type |-> "KeyError", msg |-> <<"'text'">>])

\* a str item that is_image_path accepts: the image, or a placeholder text
load_image ==
    /\ gpc = "items"
    /\ Item.ty = "str" /\ is_image_path(Item.s)
    /\ gemini_parts' = Append(gemini_parts, LoadedPart(Item.s))
    /\ Advance

\* any other str item is appended as it is
append_string ==
    /\ gpc = "items"
    /\ Item.ty = "str" /\ ~is_image_path(Item.s)
    /\ gemini_parts' = Append(gemini_parts, TextPart(Item.s))
    /\ Advance

\* an item no branch of the if statement matches
skip_item ==
    /\ gpc = "items"
    /\ Item.ty # "str"
    /\ ~(Item.ty = "dict" /\ Item.kind = <<"text">>)
    /\ UNCHANGED gemini_parts
    /\ Advance

\* `if gemini_parts: gemini_history.append(...)`, then the next message
end_message ==
    /\ gpc = "append"
    /\ gemini_history' = IF gemini_parts # <<>>
                         THEN Append(gemini_history, [role |-> role, parts |-> gemini_parts])
                         ELSE gemini_history
    /\ i' = i + 1
    /\ gpc' = "loop"
    /\ UNCHANGED <<messages, j, role, gemini_parts, sent, response, response_text,
                   token_info, caught>>
    /\ UNCHANGED dispatchVars


\* getattr(response.usage_metadata, name, 0)
Absent == [ty |-> "absent", n |-> 0, s |-> <<>>]
GetAttr(value, default) == IF value = Absent THEN default ELSE value

\* the response objects generate_content can return
Responses ==
    { [text |-> <<"Hi">>, blocked |-> FALSE, usage_metadata |-> TRUE,
       prompt_token_count |-> PyInt(3), candidates_token_count |-> PyInt(4)],
      [text |-> <<"Hi">>, blocked |-> FALSE, usage_metadata |-> FALSE,
       prompt_token_count |-> Absent, candidates_token_count |-> Absent],
      [text |-> <<"Hi">>, blocked |-> FALSE, usage_metadata |-> TRUE,
       prompt_token_count |-> PyInt(5), candidates_token_count |-> Absent],
      [text |-> <<"Hi">>, blocked |-> FALSE, usage_metadata |-> TRUE,
       prompt_token_count |-> PyNone, candidates_token_count |-> PyInt(4)],
      [text |-> <<>>, blocked |-> TRUE, usage_metadata |-> FALSE,
       prompt_token_count |-> Absent, candidates_token_count |-> Absent] }

\* genai_types.GenerationConfig(...) raises: no request is issued
config_fails ==
    /\ gpc = "loop"
    /\ i > Len(messages)
    /\ Recover([type |-> "TypeError",
                msg |-> <<"__init__() got an unexpected keyword argument 'max_output_tokens'">>])

\* model.generate_content(contents=gemini_history, ...) is called and raises
generate_fails ==
    /\ gpc = "loop"
    /\ i > Len(messages)
    /\ sent' = Append(sent, gemini_history)
    /\ \E e \in Failures :
          LET clause == FirstMatch(OuterClauses, e)
          IN  /\ caught' = e
              /\ IF clause = ""
                 THEN gpc' = "raised" /\ UNCHANGED response_text
                 ELSE gpc' = "returned" /\ response_text' = ErrorText(clause, e)
    /\ UNCHANGED <<messages, i, j, role, gemini_parts, gemini_history, response, token_info>>
    /\ UNCHANGED dispatchVars

\* the exception reading the response raises, if any: response.text of a
\* blocked response, or the sum of the token counts when one of them is None
ReadRaises(r) ==
    LET input_tokens == GetAttr(r.prompt_token_count, PyInt(0))
        output_tokens == GetAttr(r.candidates_token_count, PyInt(0))
    IN  CASE r.blocked ->
                [type |-> "ValueError", msg |-> <<"response.text requires a valid Part">>]
          [] r.usage_metadata /\ (input_tokens.ty # "int" \/ output_tokens.ty # "int") ->
                [type |-> "TypeError", msg |-> <<"unsupported operand type(s) for +">>]
          [] OTHER -> NoException

\* the token_info built from a response whose usage metadata can be read
TokenInfo(r) ==
    LET input_tokens == GetAttr(r.prompt_token_count, PyInt(0)).n
        output_tokens == GetAttr(r.candidates_token_count, PyInt(0)).n
    IN  [input_tokens |-> input_tokens, output_tokens |-> output_tokens,
         total_tokens |-> input_tokens + output_tokens]

\* model.generate_content(contents=gemini_history, ...) returns a response;
\* response.text and the usage metadata are read
generate_content ==
    /\ gpc = "loop"
    /\ i > Len(messages)
    /\ sent' = Append(sent, gemini_history)
    /\ \E r \in Responses :
          LET e == ReadRaises(r)
              clause == FirstMatch(OuterClauses, e)
          IN  /\ response' = r
              /\ caught' = e
              /\ CASE e = NoException ->
                        /\ gpc' = "returned"
                        /\ response_text' = r.text
                        /\ token_info' = IF r.usage_metadata THEN TokenInfo(r) ELSE token_info
                   [] e # NoException /\ clause = "" ->
                        /\ gpc' = "raised"
                        /\ response_text' = IF r.blocked THEN response_text ELSE r.text
                        /\ UNCHANGED token_info
                   [] OTHER ->
                        /\ gpc' = "returned"
                        /\ response_text' = ErrorText(clause, e)
                        /\ UNCHANGED token_info
    /\ UNCHANGED <<messages, i, j, role, gemini_parts, gemini_history>>
    /\ UNCHANGED dispatchVars

(***************************************************************************)
(* The conversations run_gemini_interleaved is called with                 *)
(***************************************************************************)
Roles == { PyStr(<<"user">>), PyStr(<<"assistant">>), PyStr(<<"model">>),
           PyStr(<<"tool">>), PyStr(<<"system">>) }

Items == { TextItem, TextItemNoText, OtherItem, StrItem(<<"look at this">>),
           StrItem(ScreenPng), StrItem(GonePng), StrItem(RacePng),
           StrItem(NotesJpg), StrItem(SecretPng) }

StrContent(str) == [ty |-> "str", s |-> str, items |-> <<>>]
ListContent(items) == [ty |-> "list", s |-> <<>>, items |-> items]
NoneContent == [ty |-> "None", s |-> <<>>, items |-> <<>>]

\* the contents with n list items
Contents(n) ==
    {ListContent(items) : items \in [1..n -> Items]}
    \cup (IF n = 0 THEN {StrContent(<<"what is on screen?">>), NoneContent} ELSE {})

\* the conversations of at most k messages whose messages and items number at most b
RECURSIVE Conversations(_, _)
Conversations(k, b) ==
    IF k = 0 \/ b = 0 THEN {<<>>}
    ELSE {<<>>} \cup UNION { { <<[role |-> r, content |-> c]>> \o rest :
                                  r \in Roles, c \in Contents(n - 1),
                                  rest \in Conversations(k - 1, b - n) } : n \in 1..b }


(***************************************************************************)
(* The tool calls the registry delivers (the parameter bags are loosely    *)
(* typed: any key may be absent, None, or of an unexpected type).          *)
(***************************************************************************)
EmptyBag == <<>>
Bags(key, values) == {EmptyBag} \cup {key :> v : v \in values}

CoordinateValues == {PyNone, PyInt(0), PyInt(7)}
TextValues == {PyNone, PyStr(<<>>), PyStr(<<"h","i">>)}
ButtonValues ==
    { PyStr(<<"l","e","f","t">>), PyStr(<<"L","e","f","t">>),
      PyStr(<<"R","I","G","H","T">>), PyStr(<<"m","i","d","d","l","e">>),
      PyStr(<<"b","a","c","k">>), PyStr(<<>>), PyNone, PyInt(1) }
ClickTypeValues ==
    { PyStr(<<"c","l","i","c","k">>), PyStr(<<"C","l","i","c","k">>),
      PyStr(<<"d","o","u","b","l","e">>), PyStr(<<"D","O","U","B","L","E">>),
      PyStr(<<"t","r","i","p","l","e">>), PyNone, PyInt(2) }
DurationValues ==
    { PyInt(0), PyInt(-1), PyInt(2), PyNone, PyStr(<<"2">>) }

Calls(name, bags) == {[handler |-> name, params |-> b] : b \in bags}

AllCalls ==
    Calls("handle_mouse_move",
          {a @@ b : a \in Bags("x", CoordinateValues), b \in Bags("y", CoordinateValues)})
    \cup Calls("handle_mouse_drag",
          {a @@ b : a \in Bags("x", CoordinateValues), b \in Bags("y", CoordinateValues)})
    \cup Calls("handle_mouse_click",
          {a @@ b : a \in Bags("button", ButtonValues),
                    b \in Bags("click_type", ClickTypeValues)})
    \cup Calls("handle_keyboard_type", Bags("text_to_type", TextValues))
    \cup Calls("handle_keyboard_press_key", Bags("key_to_press", TextValues))
    \cup Calls("handle_get_cursor_position", Bags("x", {PyInt(7)}))
    \cup Calls("handle_wait_seconds", Bags("duration", DurationValues))

\* the calls the registry interleaves in the concurrent runs
ConcurrentCalls ==
    Calls("handle_wait_seconds", Bags("duration", {PyInt(2)}))
    \cup Calls("handle_get_cursor_position", {EmptyBag})
    \cup Calls("handle_mouse_click", {EmptyBag})
    \cup Calls("handle_mouse_move", {("x" :> PyInt(7)) @@ ("y" :> PyInt(0))})
    \cup Calls("handle_mouse_drag", {("x" :> PyInt(0)) @@ ("y" :> PyInt(7))})
    \cup Calls("handle_keyboard_type", {"text_to_type" :> PyStr(<<"h","i">>)})
    \cup Calls("handle_keyboard_press_key", {EmptyBag})

\* run_gemini_interleaved is not called in the dispatcher's runs
GeminiNotCalled ==
    /\ gpc = "returned"
    /\ messages = <<>>
    /\ i = 1
    /\ j = 1
    /\ role = PyNone
    /\ gemini_parts = <<>>
    /\ gemini_history = <<>>
    /\ sent = <<>>
    /\ response_text = <<>>
    /\ response = NoResponse
    /\ token_info = ZeroTokens
    /\ caught = NoException

DispatchIdle ==
    /\ pc = [t \in Tasks |-> "idle"]
    /\ invoked = [t \in Tasks |-> <<>>]
    /\ outcomes = [t \in Tasks |-> <<>>]
    /\ sleeps = [t \in Tasks |-> <<>>]
    /\ result = [t \in Tasks |-> NoEnvelope]
    /\ raised = [t \in Tasks |-> ""]

\* one tool call, any entry point, any parameter bag
Init ==
    /\ DispatchIdle
    /\ \E c \in AllCalls : request = [t \in Tasks |-> IF t = 1 THEN c ELSE NoCall]
    /\ GeminiNotCalled

\* every task gets a call; the registry may interleave them
InitConcurrent ==
    /\ DispatchIdle
    /\ request \in [Tasks -> ConcurrentCalls]
    /\ GeminiNotCalled

Next ==
    \/ \E t \in Tasks : handle_mouse_move(t)
    \/ \E t \in Tasks : handle_mouse_click(t)
    \/ \E t \in Tasks : handle_mouse_drag(t)
    \/ \E t \in Tasks : handle_keyboard_type(t)
    \/ \E t \in Tasks : handle_keyboard_press_key(t)
    \/ \E t \in Tasks : handle_get_cursor_position(t)
    \/ \E t \in Tasks : handle_wait_seconds(t)
    \/ \E t \in Tasks : sleep_elapses(t)
    \/ \E t \in Tasks : computer_tool_completes(t)

Spec == Init /\ [][Next]_vars

SpecConcurrent == InitConcurrent /\ [][Next]_vars

\* one call of run_gemini_interleaved, any conversation within the bounds
InitGemini ==
    /\ DispatchIdle
    /\ request = [t \in Tasks |-> NoCall]
    /\ gpc = "start"
    /\ messages \in Conversations(MaxMsgs, MaxSize)
    /\ i = 1
    /\ j = 1
    /\ role = PyNone
    /\ gemini_parts = <<>>
    /\ gemini_history = <<>>
    /\ sent = <<>>
    /\ response = NoResponse
    /\ response_text = <<>>
    /\ token_info = ZeroTokens
    /\ caught = NoException

NextGemini ==
    \/ setup
    \/ setup_fails
    \/ next_message
    \/ append_text
    \/ load_image
    \/ append_string
    \/ skip_item
    \/ end_message
    \/ config_fails
    \/ generate_fails
    \/ generate_content

SpecGemini == InitGemini /\ [][NextGemini]_vars

(***************************************************************************)
(* Properties of mcp_server.py                                             *)
(***************************************************************************)
\* s contains sub as a contiguous run of tokens
Contains(s, sub) ==
    \E k \in 0..(Len(s) - Len(sub)) : SubSeq(s, k + 1, k + Len(sub)) = sub

IsError(envelope) ==
    /\ DOMAIN envelope = {"status", "message"}
    /\ envelope.status = PyStr(<<"error">>)
    /\ envelope.message.ty = "str"
    /\ envelope.message.s # <<>>

IsSuccess(envelope) ==
    /\ "status" \in DOMAIN envelope
    /\ "output" \in DOMAIN envelope
    /\ envelope.status = PyStr(<<"success">>)

\* the required parameters of the four intents that have some (spec section 6)
RequiredParams(name) ==
    CASE name \in {"handle_mouse_move", "handle_mouse_drag"} -> {"x", "y"}
      [] name = "handle_keyboard_type" -> {"text_to_type"}
      [] name = "handle_keyboard_press_key" -> {"key_to_press"}
      [] OTHER -> {}

\* a required parameter is absent from the bag, or present with value None
MissingRequired(call) ==
    \E key \in RequiredParams(call.handler) :
        key \notin DOMAIN call.params \/ call.params[key] = PyNone

\* C1: a call of handle_mouse_move, handle_mouse_drag, handle_keyboard_type or
\* handle_keyboard_press_key whose parameter bag lacks a required field (or
\* holds None for it) never invokes the backend, never suspends, and returns
\* an error envelope carrying a message.
C1_MissingFieldIsError ==
    \A t \in Tasks :
        MissingRequired(request[t]) =>
            /\ invoked[t] = <<>>
            /\ outcomes[t] = <<>>
            /\ pc[t] \in {"idle", "returned"}
            /\ pc[t] = "returned" => IsError(result[t])

C1_Witness ==
    \E t \in Tasks :
        /\ request[t].handler = "handle_mouse_drag"
        /\ "x" \in DOMAIN request[t].params
        /\ request[t].params["x"] = PyInt(0)
        /\ "y" \notin DOMAIN request[t].params
        /\ pc[t] = "returned"
        /\ IsError(result[t])

\* C2 (as claimed): no call of a dispatcher entry point ever ends with an
\* exception reaching the registry; every finished call holds an envelope
\* whose status is "success" or "error".
C2_NeverRaises ==
    \A t \in Tasks :
        /\ pc[t] # "raised"
        /\ pc[t] = "returned" => IsError(result[t]) \/ IsSuccess(result[t])

\* the button and click_type a click call works with, defaults applied
ButtonOf(call) == Get(call.params, "button", PyStr(<<"l","e","f","t">>))
ClickTypeOf(call) == Get(call.params, "click_type", PyStr(<<"c","l","i","c","k">>))

\* the four supported combinations and their backend tokens (spec section 4.1)
SupportedClicks ==
    { <<"left", "click", "left_click">>, <<"right", "click", "right_click">>,
      <<"middle", "click", "middle_click">>, <<"left", "double", "double_click">> }

\* the spellings of a word, in any letter case, that the calls use
Spellings(word) ==
    CASE word = "left" -> {<<"l","e","f","t">>, <<"L","e","f","t">>}
      [] word = "right" -> {<<"r","i","g","h","t">>, <<"R","I","G","H","T">>}
      [] word = "middle" -> {<<"m","i","d","d","l","e">>}
      [] word = "click" -> {<<"c","l","i","c","k">>, <<"C","l","i","c","k">>}
      [] word = "double" -> {<<"d","o","u","b","l","e">>, <<"D","O","U","B","L","E">>}
      [] OTHER -> {}

\* the backend tokens the claim assigns to a (button, click_type) pair of strings
ClickTokens(button, click_type) ==
    { <<c[3]>> : c \in { d \in SupportedClicks :
                        button \in Spellings(d[1]) /\ click_type \in Spellings(d[2]) } }

\* C3, for pairs of strings: a handle_mouse_click call whose button and click_type (defaults "left"
\* and "click") are strings invokes the backend exactly once with left_click,
\* right_click, middle_click or double_click for the four supported pairs,
\* whatever their letter case; for every other pair it invokes nothing and
\* returns an error envelope whose message names the button and click_type.
C3_ClickMapping ==
    \A t \in Tasks :
        LET b == ButtonOf(request[t])
            c == ClickTypeOf(request[t])
            tokens == ClickTokens(b.s, c.s)
        IN  (/\ request[t].handler = "handle_mouse_click"
             /\ b.ty = "str" /\ c.ty = "str"
             /\ pc[t] # "idle") =>
                IF tokens # {}
                THEN /\ Len(invoked[t]) = 1
                     /\ tokens = {invoked[t][1].action}
                     /\ invoked[t][1].text = PyNone
                     /\ invoked[t][1].coordinate = <<>>
                     /\ pc[t] \in {"awaiting", "returned"}
                ELSE /\ invoked[t] = <<>>
                     /\ pc[t] = "returned"
                     /\ IsError(result[t])
                     /\ Contains(result[t].message.s, b.s \o <<"/">> \o c.s)

\* C3 (as claimed, for every pair the parameter bag can hold): a finished or
\* suspended handle_mouse_click call either invoked the backend once, for a
\* supported pair, or returned an error envelope without invoking it.
C3_EveryOtherPairIsError ==
    \A t \in Tasks :
        (request[t].handler = "handle_mouse_click" /\ pc[t] # "idle") =>
            LET b == ButtonOf(request[t])
                c == ClickTypeOf(request[t])
                tokens == IF b.ty = "str" /\ c.ty = "str"
                          THEN ClickTokens(b.s, c.s) ELSE {}
            IN  IF tokens # {}
                THEN Len(invoked[t]) = 1 /\ tokens = {invoked[t][1].action}
                ELSE invoked[t] = <<>> /\ pc[t] = "returned" /\ IsError(result[t])

C3_Witness ==
    \E t \in Tasks :
        /\ request[t].handler = "handle_mouse_click"
        /\ request[t].params = ("button" :> PyStr(<<"L","e","f","t">>))
                               @@ ("click_type" :> PyStr(<<"D","O","U","B","L","E">>))
        /\ pc[t] = "returned"
        /\ invoked[t] = <<[action |-> <<"double_click">>, text |-> PyNone,
                           coordinate |-> <<>>]>>

\* C4: handle_wait_seconds with a positive duration starts one timed delay of
\* that duration, never invokes the backend and returns a success envelope
\* with a descriptive output; with a zero, negative or absent duration it
\* starts no delay, invokes the backend exactly once with the token "wait"
\* and returns the envelope of that invocation.
C4_WaitSeconds ==
    \A t \in Tasks :
        LET duration == Get(request[t].params, "duration", PyInt(0))
        IN  (/\ request[t].handler = "handle_wait_seconds"
             /\ duration.ty = "int"
             /\ pc[t] # "idle") =>
                IF duration.n > 0
                THEN /\ sleeps[t] = <<duration>>
                     /\ invoked[t] = <<>>
                     /\ pc[t] = "returned" =>
                            /\ IsSuccess(result[t])
                            /\ result[t].output.ty = "str"
                            /\ Contains(result[t].output.s, <<ToString(duration.n)>>)
                ELSE /\ sleeps[t] = <<>>
                     /\ invoked[t] = <<[action |-> <<"wait">>, text |-> PyNone,
                                        coordinate |-> <<>>]>>
                     /\ pc[t] \in {"awaiting", "returned"}
                     /\ pc[t] = "returned" =>
                            /\ Len(outcomes[t]) = 1
                            /\ result[t] = SafeEnvelope(outcomes[t][1])

C4_Witness ==
    \E t \in Tasks :
        /\ request[t].handler = "handle_wait_seconds"
        /\ request[t].params = ("duration" :> PyInt(2))
        /\ pc[t] = "returned"
        /\ sleeps[t] = <<PyInt(2)>>
        /\ IsSuccess(result[t])

\* C5: every finished backend invocation was the only one of its call, and its
\* outcome decides the envelope: a result gives "success" with the backend's
\* output and base64_image (None when the result has none); a ToolError gives
\* "error" with exactly the backend's message; any other exception gives
\* "error" with "Unexpected error in ComputerTool: " followed by its text.
C5_SafeComputerAction ==
    \A t \in Tasks :
        /\ Len(invoked[t]) <= 1
        /\ Len(outcomes[t]) <= Len(invoked[t])
        /\ pc[t] = "awaiting" => Len(invoked[t]) = 1 /\ outcomes[t] = <<>>
        /\ outcomes[t] # <<>> =>
            LET o == outcomes[t][1]
                e == result[t]
            IN  /\ pc[t] = "returned"
                /\ o.kind = "result" =>
                      /\ DOMAIN e = {"status", "output", "base64_image"}
                      /\ e.status = PyStr(<<"success">>)
                      /\ e.output = o.output
                      /\ e.base64_image = (IF o.hasImage THEN o.image ELSE PyNone)
                /\ o.kind = "ToolError" =>
                      /\ IsError(e)
                      /\ e.message.s = o.msg
                /\ o.kind = "Exception" =>
                      /\ IsError(e)
                      /\ e.message.s = <<"Unexpected error in ComputerTool: ">> \o o.msg

C5_Witness ==
    \E t \in Tasks :
        /\ outcomes[t] # <<>>
        /\ outcomes[t][1].kind = "Exception"
        /\ pc[t] = "returned"
        /\ result[t].message.s =
              <<"Unexpected error in ComputerTool: ", "connection reset">>

\* a task is inside the timed delay of handle_wait_seconds
InTimedWait(t) == sleeps[t] # <<>> /\ pc[t] \notin {"returned", "raised"}

\* the next step of task u's call, whichever it is
TaskStep(u) ==
    \/ handle_mouse_move(u)
    \/ handle_mouse_click(u)
    \/ handle_mouse_drag(u)
    \/ handle_keyboard_type(u)
    \/ handle_keyboard_press_key(u)
    \/ handle_get_cursor_position(u)
    \/ handle_wait_seconds(u)
    \/ sleep_elapses(u)
    \/ computer_tool_completes(u)

\* a finished call holds the envelope its own request and its own backend
\* outcome give it: that of its backend invocation, else that of its timed
\* wait, else a validation error
OwnEnvelope(u) ==
    IF outcomes[u] # <<>> THEN result[u] = SafeEnvelope(outcomes[u][1])
    ELSE IF sleeps[u] # <<>> THEN result[u] = WaitedEnvelope(sleeps[u][1])
    ELSE IsError(result[u])

\* C9: while one call is inside its timed wait, every other unfinished call
\* can take its next step (start, invoke the backend, receive its outcome and
\* return, or finish a wait of its own), and every finished call holds the
\* envelope its own request and backend outcome give it.
C9_WaitSuspendsOnlyItself ==
    \A t \in Tasks : \A u \in Tasks \ {t} :
        InTimedWait(t) =>
            /\ pc[u] \notin {"returned", "raised"} => ENABLED TaskStep(u)
            /\ pc[u] = "returned" => OwnEnvelope(u)

C9_Witness ==
    \E t \in Tasks : \E u \in Tasks \ {t} :
        /\ InTimedWait(t)
        /\ request[u].handler = "handle_get_cursor_position"
        /\ pc[u] = "returned"
        /\ Len(invoked[u]) = 1
        /\ IsSuccess(result[u])

(***************************************************************************)
(* Properties of googleaiclient.py                                         *)
(***************************************************************************)
\* the parts one content item yields (spec section 4.2, step 2)
Yield(item) ==
    CASE item.ty = "dict" /\ item.kind = <<"text">> /\ item.hasText -> <<TextPart(item.text)>>
      [] item.ty = "str" /\ is_image_path(item.s) -> <<LoadedPart(item.s)>>
      [] item.ty = "str" -> <<TextPart(item.s)>>
      [] OTHER -> <<>>

RECURSIVE Flatten(_)
Flatten(items) ==
    IF items = <<>> THEN <<>> ELSE Yield(Head(items)) \o Flatten(Tail(items))

\* the parts a message's content yields, in their original order
PartsYielded(content) ==
    CASE content.ty = "str" -> <<TextPart(content.s)>>
      [] content.ty = "list" -> Flatten(content.items)
      [] OTHER -> <<>>

\* the in-order subsequence of the messages whose role is "user", "model" or
\* "assistant" and whose content yields a part, "assistant" renamed "model"
RECURSIVE ExpectedHistory(_)
ExpectedHistory(msgs) ==
    IF msgs = <<>> THEN <<>>
    ELSE LET m == Head(msgs)
             parts == PartsYielded(m.content)
             turn == [role |-> IF m.role = PyStr(<<"assistant">>)
                               THEN PyStr(<<"model">>) ELSE m.role,
                      parts |-> parts]
         IN  IF /\ m.role \in {PyStr(<<"user">>), PyStr(<<"model">>), PyStr(<<"assistant">>)}
                /\ parts # <<>>
             THEN <<turn>> \o ExpectedHistory(Tail(msgs))
             ELSE ExpectedHistory(Tail(msgs))

\* C6: at the head of the loop the adapted history is the expected
\* subsequence of the messages read so far, and the history passed to
\* generate_content is that of the whole conversation; every adapted turn has
\* role "user" or "model" and at least one part; a conversation of "tool"
\* messages only is sent as an empty history.
C6_AdaptedHistory ==
    /\ gpc = "loop" => gemini_history = ExpectedHistory(SubSeq(messages, 1, i - 1))
    /\ sent # <<>> => sent = <<ExpectedHistory(messages)>>
    /\ \A k \in DOMAIN gemini_history :
          /\ gemini_history[k].role \in {PyStr(<<"user">>), PyStr(<<"model">>)}
          /\ gemini_history[k].parts # <<>>
    /\ (sent # <<>> /\ \A k \in DOMAIN messages : messages[k].role = PyStr(<<"tool">>))
          => sent = << <<>> >>

C6_Witness ==
    /\ messages = << [role |-> PyStr(<<"tool">>),
                      content |-> StrContent(<<"what is on screen?">>)],
                     [role |-> PyStr(<<"assistant">>),
                      content |-> ListContent(<<TextItem>>)] >>
    /\ sent = << << [role |-> PyStr(<<"model">>),
                     parts |-> <<TextPart(<<"hello">>)>>] >> >>

\* the text each kind of failure is described by
Describes(text, e) ==
    /\ text # <<>>
    /\ Contains(text, e.msg)
    /\ CASE "ImportError" \in Classes(e.type) ->
                Head(text) = "ImportError: Please install google-generativeai. "
         [] e.type = "AttributeError" ->
                Head(text) = "Error setting up Gemini call (AttributeError): "
         [] e.type = "TypeError" ->
                Head(text) = "Type error during Gemini call (check arguments/version): "
         [] OTHER -> Contains(text, <<e.type, " - ">> \o e.msg)

\* C7: no exception leaves run_gemini_interleaved; whenever one was raised
\* inside it (setting up the client, adapting the history, building or
\* issuing the request, reading the response) the call has returned a
\* non-empty text describing that failure and a usage of all zeros.
C7_FailuresAreReturned ==
    /\ gpc # "raised"
    /\ caught # NoException =>
          /\ gpc = "returned"
          /\ Describes(response_text, caught)
          /\ token_info = ZeroTokens

C7_Witness ==
    /\ gpc = "returned"
    /\ caught.type = "TypeError"
    /\ response # NoResponse
    /\ response.prompt_token_count = PyNone
    /\ token_info = ZeroTokens
    /\ Head(response_text) = "Type error during Gemini call (check arguments/version): "

\* the item the inner loop is at is an image reference whose load fails
LoadFails(item) ==
    /\ item.ty = "str"
    /\ is_image_path(item.s)
    /\ ~Exists(item.s) \/ OpenRaises(item.s) # NoException

\* the file is missing: it does not exist, or disappears before it is opened
FileMissing(path) == ~Exists(path) \/ OpenRaises(path).type = "FileNotFoundError"

\* a path's last separator (0 if it has none), the directory part up to it
\* and the file's base name after it
LastSeparator(path) ==
    LET seps == {k \in DOMAIN path : path[k] = "/"}
    IN  IF seps = {} THEN 0 ELSE CHOOSE k \in seps : \A m \in seps : m <= k
Directory(path) == SubSeq(path, 1, LastSeparator(path))
FileName(path) == SubSeq(path, LastSeparator(path) + 1, Len(path))

Last(seq) == seq[Len(seq)]

\* C8, one step: a step of the inner loop at an image reference whose load fails raises
\* nothing and appends exactly one text part, after the parts already there,
\* which contains the file's base name (and, for a missing file, nothing of
\* the path's directory); the loop then goes on with the next item or the
\* end of the message.  A call that returned without an exception issued
\* exactly one request, with the history the adapter built.
C8_StepKeepsGoing ==
    (gpc = "items" /\ LoadFails(Item)) =>
        /\ gpc' = (IF j = Len(messages[i].content.items) THEN "append" ELSE "items")
        /\ i' = i /\ j' = j + 1
        /\ caught' = NoException
        /\ gemini_parts' = Append(gemini_parts, Last(gemini_parts'))
        /\ Last(gemini_parts').kind = "text"
        /\ Contains(Last(gemini_parts').s, FileName(Item.s))
        /\ FileName(Item.s) # <<>>
        /\ FileMissing(Item.s) =>
              \A k \in DOMAIN Directory(Item.s) :
                  ~Contains(Last(gemini_parts').s, <<Directory(Item.s)[k]>>)

\* C8: every step of the inner loop at a failing image reference keeps the
\* adaptation going as C8_StepKeepsGoing says, and the request is issued with
\* the history the adapter built.
C8_ImageFailureIsLocal ==
    /\ [][C8_StepKeepsGoing]_vars
    /\ []((gpc = "returned" /\ caught = NoException) => sent = <<gemini_history>>)
    /\ [](sent # <<>> => sent = <<gemini_history>>)

C8_Witness ==
    /\ messages = << [role |-> PyStr(<<"user">>),
                      content |-> ListContent(<<StrItem(GonePng), TextItem>>)] >>
    /\ gpc = "returned"
    /\ caught = NoException
    /\ sent = << << [role |-> PyStr(<<"user">>),
                     parts |-> << TextPart(<<"[Image not found: ", "gone", ".png", "]">>),
                                  TextPart(<<"hello">>) >>] >> >>

\* the load of an image reference fails for a reason other than the file
\* being missing or not decodable
FailsOtherwise(item) ==
    /\ LoadFails(item)
    /\ Exists(item.s)
    /\ OpenRaises(item.s).type \notin {"FileNotFoundError", "UnidentifiedImageError"}

\* C10 (as claimed): the placeholder appended for such a failure includes the
\* failure reason.
C10_PlaceholderIncludesReason ==
    [][(gpc = "items" /\ FailsOtherwise(Item)) =>
            Contains(Last(gemini_parts').s, OpenRaises(Item.s).msg)]_vars

\* C10 (amended): the placeholder appended for such a failure is the text
\* "[Error loading image: <base name>]"; it names the file's base name and
\* does not include the failure reason.
C10_PlaceholderNamesFileOnly ==
    [][(gpc = "items" /\ FailsOtherwise(Item)) =>
            /\ gemini_parts' = Append(gemini_parts,
                    TextPart(<<"[Error loading image: ">> \o FileName(Item.s) \o <<"]">>))
            /\ ~Contains(Last(gemini_parts').s, OpenRaises(Item.s).msg)]_vars

C10_Witness ==
    /\ gpc \in {"items", "append"}
    /\ messages[i].content.ty = "list"
    /\ j > 1
    /\ messages[i].content.items[j - 1] = StrItem(SecretPng)
    /\ Last(gemini_parts) = TextPart(<<"[Error loading image: ", "secret", ".png", "]">>)

====
